---- MODULE Spec2Model ----
(***************************************************************************)
(* Model of src/app.py: a Flask service that reads per-file metadata blobs *)
(* of a user from the container "weez-files-metadata", computes an         *)
(* embedding for each with a remote API and writes one record per blob to  *)
(* the container "weez-files-embeddings".                                  *)
(*                                                                         *)
(* A Python string is a sequence of atomic pieces (single characters for   *)
(* user ids and blob names), so that f"{user_id}/", str.startswith and     *)
(* concatenation are computed as the code computes them.                   *)
(*                                                                         *)
(* One request is in flight at a time in this service instance; every      *)
(* call to blob storage or to the embedding API is one step.  Another      *)
(* process (a second instance of the service running lines 90-91) may      *)
(* create the embeddings container between any two steps.                  *)
(***************************************************************************)
EXTENDS Naturals, Sequences, FiniteSets, TLC

\* ------------------------------------------------------------------ bounds
\* Number of file identifiers that may exist under the user "u".
MaxFiles == 2

\* --------------------------------------------------------------- constants
METADATA_CONTAINER == "weez-files-metadata"
EMBEDDINGS_CONTAINER == "weez-files-embeddings"
Containers == {METADATA_CONTAINER, EMBEDDINGS_CONTAINER}

\* ------------------------------------------------------------ Python values
\* The empty string, also standing for a value that is not there (None).
NoStr == << >>

IsPrefix(p, s) == Len(p) <= Len(s) /\ SubSeq(s, 1, Len(p)) = p

\* f"{user_id}/"
UserPrefix(user_id) == user_id \o <<"/">>

\* Lexicographic order of strings whose pieces are ranked by Rank.
Rank(c) == CASE c = "/" -> 0 [] c = "a" -> 1 [] c = "b" -> 2 [] c = "c" -> 3
             [] c = "u" -> 4 [] c = "v" -> 5 [] c = "w" -> 6 [] OTHER -> 7

RECURSIVE StrLess(_, _)
StrLess(s, t) ==
    IF t = << >> THEN FALSE
    ELSE IF s = << >> THEN TRUE
    ELSE IF Head(s) = Head(t) THEN StrLess(Tail(s), Tail(t))
    ELSE Rank(Head(s)) < Rank(Head(t))

\* The elements of a finite set of strings as a sequence in ascending order.
RECURSIVE SortedSeq(_)
SortedSeq(S) ==
    IF S = {} THEN << >>
    ELSE LET m == CHOOSE x \in S : \A y \in S \ {x} : StrLess(x, y)
         IN  <<m>> \o SortedSeq(S \ {m})

\* ------------------------------------------------------------------- JSON
\* A JSON value: an object is an ordered sequence of <<name, value>> pairs
\* (a Python dict keeps insertion order); any other value has no .get/.values.
JsonObject(items) == [type |-> "object", items |-> items]
JsonArray == [type |-> "array", items |-> << >>]

\* A blob's text: either the serialisation of a JSON value or text that
\* json.loads rejects.
JsonDumps(value) == [json |-> TRUE, value |-> value]
NotJson == [json |-> FALSE, value |-> JsonArray]

\* dict.get(name, default)
RECURSIVE DictGet(_, _, _)
DictGet(items, name, default) ==
    IF items = << >> THEN default
    ELSE IF Head(items)[1] = name THEN Head(items)[2]
    ELSE DictGet(Tail(items), name, default)

DictHas(items, name) == \E i \in 1..Len(items) : items[i][1] = name

\* " ".join(str(value) for value in metadata.values())
RECURSIVE JoinValues(_)
JoinValues(items) ==
    IF items = << >> THEN << >>
    ELSE IF Len(items) = 1 THEN Head(items)[2]
    ELSE Head(items)[2] \o <<" ">> \o JoinValues(Tail(items))

\* The vector the embedding model returns for a text: an opaque function of it.
EmbeddingOf(text) == <<"vec:">> \o text

\* ------------------------------------------------------------------ inputs
U == <<"u">>
V == <<"v">>
UserIds == {U, V}

FileLetters == <<"a", "b", "c">>
FileIds == {<<FileLetters[i]>> : i \in 1..MaxFiles}

\* What a metadata blob may hold.
ObjWithPath == JsonObject(<< <<"file_path", <<"/docs/a.txt">> >>, <<"title", <<"Report">> >> >>)
ObjNoPath == JsonObject(<< <<"title", <<"Report">> >> >>)
MetadataTexts == {JsonDumps(ObjWithPath), JsonDumps(ObjNoPath), NotJson}

\* The metadata containers considered: any subset of u's files, each with
\* any of the texts above, and one blob of user v that holds a JSON array.
MetadataBlobs ==
    { f @@ (UserPrefix(V) \o <<"a">> :> JsonDumps(JsonArray)) :
        f \in UNION { [ {UserPrefix(U) \o id : id \in ids} -> MetadataTexts ] : ids \in SUBSET FileIds } }

\* Request bodies.  isobj: the body is a JSON object (else it is JSON null).
Body(isobj, hu, u, hb, b) ==
    [isobj |-> isobj, has_user_id |-> hu, user_id |-> u, has_blob_name |-> hb, blob_name |-> b]
NullBody == Body(FALSE, FALSE, NoStr, FALSE, NoStr)
BatchBodies ==
    {NullBody, Body(TRUE, FALSE, NoStr, FALSE, NoStr), Body(TRUE, TRUE, NoStr, FALSE, NoStr)}
    \cup {Body(TRUE, TRUE, u, FALSE, NoStr) : u \in UserIds}
BlobNames == {<<"a">>, UserPrefix(U) \o <<"a">>, UserPrefix(V) \o <<"a">>}
SingleBodies ==
    {Body(TRUE, FALSE, NoStr, FALSE, NoStr), Body(TRUE, TRUE, U, FALSE, NoStr),
     Body(TRUE, FALSE, NoStr, TRUE, <<"a">>), Body(TRUE, TRUE, U, TRUE, <<"a">>)}

\* ------------------------------------------------------------------- state
VARIABLES
    storage,     \* the blob service: container name -> [exists, blobs]
    pc,          \* where the request in flight is
    route,       \* its entry point
    body,        \* its JSON body (HTTP entry points)
    loc,         \* the local variables of the function that runs
    resp,        \* the HTTP response
    ret,         \* what process_single_metadata_to_embedding returned or raised
    calls,       \* the storage and API calls made for the request in flight
    before,      \* the embeddings container's blobs when the request arrived
    lastBatch    \* the summary of the batch run that was the previous request

vars == <<storage, pc, route, body, loc, resp, ret, calls, before, lastBatch>>

NoBlobs == << >>
NoLoc ==
    [user_id |-> NoStr, blob_name |-> NoStr, blobs |-> << >>,
     metadata_content |-> NotJson, metadata |-> JsonArray, file_path |-> NoStr,
     embeddings |-> NoStr, processed_files |-> << >>, failed_files |-> << >>]
NoSummary == [processed_files |-> << >>, failed_files |-> << >>]
NoResp == [status |-> 0, error |-> "", message |-> "", has_result |-> FALSE, result |-> NoSummary]
NoRet == [kind |-> "none", status |-> "", blob_name |-> NoStr, message |-> ""]
NoBatch == [valid |-> FALSE, user_id |-> NoStr, processed |-> {}, failed |-> {}, keys |-> {}]

\* A call: key is the blob the call is made for, arg what else is passed.
Call(op, container, key, arg) == [op |-> op, container |-> container, key |-> key, arg |-> arg]

Init ==
    /\ \E m \in MetadataBlobs, e \in BOOLEAN :
         storage = [c \in Containers |->
                      IF c = METADATA_CONTAINER THEN [exists |-> TRUE, blobs |-> m]
                      ELSE [exists |-> e, blobs |-> NoBlobs]]
    /\ pc = "idle"
    /\ route = ""
    /\ body = NullBody
    /\ loc = NoLoc
    /\ resp = NoResp
    /\ ret = NoRet
    /\ calls = << >>
    /\ before = NoBlobs
    /\ lastBatch = NoBatch

\* ---------------------------------------------------------------- helpers
\* (mutant) `if user_id is None`
FalsyOnlyNone(has, value) == ~has

\* `if not user_id`: None and the empty string are falsy.
Falsy(has, value) == ~has \/ value = NoStr

\* (mutant) an existing blob is kept and the data stored beside it
PutBeside(blobs, key, text) ==
    IF key \in DOMAIN blobs THEN (key \o <<"(1)">> :> text) @@ blobs ELSE (key :> text) @@ blobs

\* blob_client.upload_blob(data, overwrite=True)
Put(blobs, key, text) == (key :> text) @@ blobs

\* (mutant) the blob client is taken from the metadata container client
UploadToMetadata == METADATA_CONTAINER

\* The container the blob client of an upload belongs to.
UploadContainer == EMBEDDINGS_CONTAINER

\* embeddings_data of upload_embeddings, serialised with json.dumps.
EmbeddingsData(file_name, embeddings, file_path) ==
    JsonDumps(JsonObject(<< <<"file_name", file_name>>, <<"embeddings", embeddings>>,
                            <<"file_path", file_path>> >>))

\* (mutant) metadata.get("path", "unknown_path")
FilePathWrongKey(metadata) == DictGet(metadata.items, "path", <<"unknown_path">>)

\* metadata.get("file_path", "unknown_path")
FilePathOf(metadata) == DictGet(metadata.items, "file_path", <<"unknown_path">>)

\* list_blobs(name_starts_with=user_prefix): the names, in the service's
\* (lexicographic) order.
fetch_user_blobs(container, user_id) ==
    SortedSeq({name \in DOMAIN storage[container].blobs : IsPrefix(UserPrefix(user_id), name)})

\* (mutant) the failure ends the loop
AbortAfterFailure(blobs) == << >>

\* (mutant) the failed blob is tried again
RetryAfterFailure(blobs) == blobs

\* The blobs still to visit once the except clause has recorded a failure.
RestAfterFailure(blobs) == Tail(blobs)

\* failed_files.append({"blob_name": blob.name, "error": str(e)}), then on
\* with the loop.
ItemFailed(error) ==
    /\ loc' = [loc EXCEPT !.failed_files = Append(@, [blob_name |-> Head(loc.blobs), error |-> error]),
                          !.blobs = RestAfterFailure(loc.blobs)]
    /\ pc' = IF RestAfterFailure(loc.blobs) = << >> THEN "b_return" ELSE "b_read"

\* A request arrives: the bookkeeping common to every entry point.
Arrive(r, b) ==
    /\ pc = "idle"
    /\ route' = r
    /\ body' = b
    /\ ret' = NoRet
    /\ calls' = << >>
    /\ before' = storage[EMBEDDINGS_CONTAINER].blobs

Respond(status, error) ==
    /\ resp' = [NoResp EXCEPT !.status = status, !.error = error]
    /\ pc' = "done"

\* ------------------------------------------------- POST /process_embeddings
\* Lines 129-133: the body is read and user_id checked.
process_embeddings ==
    \E b \in BatchBodies :
        /\ Arrive("/process_embeddings", b)
        /\ UNCHANGED storage
        /\ IF ~b.isobj
           THEN \* data is None: data.get raises outside the try
                /\ Respond(500, "AttributeError")
                /\ loc' = NoLoc
                /\ lastBatch' = NoBatch
           ELSE IF Falsy(b.has_user_id, b.user_id)
           THEN /\ Respond(400, "Missing user_id in request")
                /\ loc' = NoLoc
                /\ lastBatch' = NoBatch
           ELSE /\ pc' = "b_exists"
                /\ resp' = NoResp
                /\ loc' = [NoLoc EXCEPT !.user_id = b.user_id]
                /\ lastBatch' = IF lastBatch.user_id = b.user_id THEN lastBatch ELSE NoBatch

\* Line 90: embeddings_container_client.exists()
BatchExists ==
    /\ pc = "b_exists"
    /\ calls' = Append(calls, Call("exists", EMBEDDINGS_CONTAINER, NoStr, NoStr))
    /\ pc' = IF storage[EMBEDDINGS_CONTAINER].exists THEN "b_list" ELSE "b_create"
    /\ UNCHANGED <<storage, route, body, loc, resp, ret, before, lastBatch>>

\* Line 91: blob_service_client.create_container, which raises
\* ResourceExistsError when the container is there; lines 138-139 answer it.
BatchCreate ==
    /\ pc = "b_create"
    /\ calls' = Append(calls, Call("create_container", EMBEDDINGS_CONTAINER, NoStr, NoStr))
    /\ IF storage[EMBEDDINGS_CONTAINER].exists
       THEN /\ Respond(500, "ResourceExistsError")
            /\ lastBatch' = NoBatch
            /\ UNCHANGED storage
       ELSE /\ storage' = [storage EXCEPT ![EMBEDDINGS_CONTAINER].exists = TRUE]
            /\ pc' = "b_list"
            /\ UNCHANGED <<resp, lastBatch>>
    /\ UNCHANGED <<route, body, loc, ret, before>>

\* Lines 94-99: the listing is fetched when the loop starts; a listing that
\* fails raises out of the function (lines 138-139).
BatchList ==
    /\ pc = "b_list"
    /\ calls' = Append(calls, Call("list_blobs", METADATA_CONTAINER, NoStr, UserPrefix(loc.user_id)))
    /\ \E ok \in BOOLEAN :
         IF ok
         THEN LET blobs == fetch_user_blobs(METADATA_CONTAINER, loc.user_id)
              IN  /\ loc' = [loc EXCEPT !.blobs = blobs]
                  /\ pc' = IF blobs = << >> THEN "b_return" ELSE "b_read"
                  /\ UNCHANGED <<resp, lastBatch>>
         ELSE /\ Respond(500, "ServiceRequestError")
              /\ lastBatch' = NoBatch
              /\ UNCHANGED loc
    /\ UNCHANGED <<storage, route, body, ret, before>>

\* Line 102: read_blob_content(metadata_container_client, blob.name)
BatchRead ==
    /\ pc = "b_read"
    /\ LET name == Head(loc.blobs)
           md == storage[METADATA_CONTAINER].blobs
       IN  /\ calls' = Append(calls, Call("download_blob", METADATA_CONTAINER, name, NoStr))
           /\ \E ok \in BOOLEAN :
                IF ~ok THEN ItemFailed("ServiceRequestError")
                ELSE IF name \notin DOMAIN md THEN ItemFailed("BlobNotFound")
                ELSE /\ loc' = [loc EXCEPT !.metadata_content = md[name]]
                     /\ pc' = "b_parse"
    /\ UNCHANGED <<storage, route, body, resp, ret, before, lastBatch>>

\* Lines 103-106: json.loads and metadata.get
BatchParse ==
    /\ pc = "b_parse"
    /\ IF ~loc.metadata_content.json THEN ItemFailed("JSONDecodeError")
       ELSE IF loc.metadata_content.value.type # "object" THEN ItemFailed("AttributeError")
       ELSE /\ loc' = [loc EXCEPT !.metadata = loc.metadata_content.value,
                                  !.file_path = FilePathOf(loc.metadata_content.value)]
            /\ pc' = "b_embed"
    /\ UNCHANGED <<storage, route, body, resp, ret, calls, before, lastBatch>>

\* The blob the request is working on.
CurrentBlob == IF route = "/process_embeddings" THEN Head(loc.blobs) ELSE loc.blob_name

\* Line 109: compute_embeddings_with_azure_openai(metadata)
BatchEmbed ==
    /\ pc = "b_embed"
    /\ LET text == JoinValues(loc.metadata.items)
       IN  /\ calls' = Append(calls, Call("embeddings.create", "", CurrentBlob, text))
           /\ \E ok \in BOOLEAN :
                IF ~ok THEN ItemFailed("APIError")
                ELSE /\ loc' = [loc EXCEPT !.embeddings = EmbeddingOf(text)]
                     /\ pc' = "b_upload"
    /\ UNCHANGED <<storage, route, body, resp, ret, before, lastBatch>>

\* Lines 112-115: upload_embeddings, then processed_files.append
BatchUpload ==
    /\ pc = "b_upload"
    /\ LET name == Head(loc.blobs)
       IN  /\ calls' = Append(calls, Call("upload_blob", UploadContainer, name, NoStr))
           /\ \E ok \in BOOLEAN :
                IF ~ok
                THEN ItemFailed("HttpResponseError") /\ UNCHANGED storage
                ELSE IF ~storage[UploadContainer].exists
                THEN ItemFailed("ContainerNotFound") /\ UNCHANGED storage
                ELSE /\ storage' = [storage EXCEPT ![UploadContainer].blobs =
                                      Put(@, name, EmbeddingsData(name, loc.embeddings, loc.file_path))]
                     /\ loc' = [loc EXCEPT !.processed_files = Append(@, name),
                                           !.blobs = Tail(loc.blobs)]
                     /\ pc' = IF Tail(loc.blobs) = << >> THEN "b_return" ELSE "b_read"
    /\ UNCHANGED <<route, body, resp, ret, before, lastBatch>>

\* Lines 119-122 and 137: the summary is returned and answered with 200.
BatchReturn ==
    /\ pc = "b_return"
    /\ resp' = [NoResp EXCEPT !.status = 200, !.message = "Processing completed",
                              !.has_result = TRUE,
                              !.result = [processed_files |-> loc.processed_files,
                                          failed_files |-> loc.failed_files]]
    /\ pc' = "done"
    /\ UNCHANGED <<storage, route, body, loc, ret, calls, before, lastBatch>>

\* ------------------------------------------- POST /process_single_embedding
\* Lines 142-143: the route has no URL variables, so Flask calls the view
\* with no arguments; binding user_id and blob_name raises TypeError before
\* the body runs, and Flask answers 500.
process_single_embedding_route ==
    \E b \in SingleBodies :
        /\ Arrive("/process_single_embedding", b)
        /\ Respond(500, "TypeError")
        /\ loc' = NoLoc
        /\ lastBatch' = NoBatch
        /\ UNCHANGED storage

\* --------------------- process_single_metadata_to_embedding(user_id, blob_name)
\* The function called with its two arguments (kept in body).
process_single_metadata_to_embedding ==
    \E u \in UserIds, b \in BlobNames :
        /\ Arrive("process_single_metadata_to_embedding", Body(TRUE, TRUE, u, TRUE, b))
        /\ loc' = [NoLoc EXCEPT !.user_id = u, !.blob_name = b]
        /\ pc' = "s_exists"
        /\ resp' = NoResp
        /\ lastBatch' = NoBatch
        /\ UNCHANGED storage

\* (mutant) the prefix is added without the startswith test
AlwaysPrefixed(user_id, blob_name) == UserPrefix(user_id) \o blob_name

\* Lines 157-158
NormalizedName(user_id, blob_name) ==
    IF ~IsPrefix(UserPrefix(user_id), blob_name) THEN UserPrefix(user_id) \o blob_name
    ELSE blob_name

\* Lines 178-183: the except clause returns the error outcome.
SingleFailed(error) ==
    /\ ret' = [kind |-> "return", status |-> "error", blob_name |-> loc.blob_name, message |-> error]
    /\ pc' = "done"
    /\ UNCHANGED loc

\* Line 152
SingleExists ==
    /\ pc = "s_exists"
    /\ calls' = Append(calls, Call("exists", EMBEDDINGS_CONTAINER, NoStr, NoStr))
    /\ pc' = IF storage[EMBEDDINGS_CONTAINER].exists THEN "s_normalize" ELSE "s_create"
    /\ UNCHANGED <<storage, route, body, loc, resp, ret, before, lastBatch>>

\* Line 153, outside the try: ResourceExistsError leaves the function.
SingleCreate ==
    /\ pc = "s_create"
    /\ calls' = Append(calls, Call("create_container", EMBEDDINGS_CONTAINER, NoStr, NoStr))
    /\ IF storage[EMBEDDINGS_CONTAINER].exists
       THEN /\ ret' = [NoRet EXCEPT !.kind = "raise", !.message = "ResourceExistsError"]
            /\ pc' = "done"
            /\ UNCHANGED storage
       ELSE /\ storage' = [storage EXCEPT ![EMBEDDINGS_CONTAINER].exists = TRUE]
            /\ pc' = "s_normalize"
            /\ UNCHANGED ret
    /\ UNCHANGED <<route, body, loc, resp, before, lastBatch>>

\* Lines 157-158
SingleNormalize ==
    /\ pc = "s_normalize"
    /\ loc' = [loc EXCEPT !.blob_name = NormalizedName(loc.user_id, loc.blob_name)]
    /\ pc' = "s_read"
    /\ UNCHANGED <<storage, route, body, resp, ret, calls, before, lastBatch>>

\* Line 161
SingleRead ==
    /\ pc = "s_read"
    /\ LET md == storage[METADATA_CONTAINER].blobs
       IN  /\ calls' = Append(calls, Call("download_blob", METADATA_CONTAINER, loc.blob_name, NoStr))
           /\ \E ok \in BOOLEAN :
                IF ~ok THEN SingleFailed("ServiceRequestError")
                ELSE IF loc.blob_name \notin DOMAIN md THEN SingleFailed("BlobNotFound")
                ELSE /\ loc' = [loc EXCEPT !.metadata_content = md[loc.blob_name]]
                     /\ pc' = "s_parse"
                     /\ UNCHANGED ret
    /\ UNCHANGED <<storage, route, body, resp, before, lastBatch>>

\* Lines 162-165
SingleParse ==
    /\ pc = "s_parse"
    /\ IF ~loc.metadata_content.json THEN SingleFailed("JSONDecodeError")
       ELSE IF loc.metadata_content.value.type # "object" THEN SingleFailed("AttributeError")
       ELSE /\ loc' = [loc EXCEPT !.metadata = loc.metadata_content.value,
                                  !.file_path = FilePathOf(loc.metadata_content.value)]
            /\ pc' = "s_embed"
            /\ UNCHANGED ret
    /\ UNCHANGED <<storage, route, body, resp, calls, before, lastBatch>>

\* Line 168
SingleEmbed ==
    /\ pc = "s_embed"
    /\ LET text == JoinValues(loc.metadata.items)
       IN  /\ calls' = Append(calls, Call("embeddings.create", "", CurrentBlob, text))
           /\ \E ok \in BOOLEAN :
                IF ~ok THEN SingleFailed("APIError")
                ELSE /\ loc' = [loc EXCEPT !.embeddings = EmbeddingOf(text)]
                     /\ pc' = "s_upload"
                     /\ UNCHANGED ret
    /\ UNCHANGED <<storage, route, body, resp, before, lastBatch>>

\* Lines 171-177
SingleUpload ==
    /\ pc = "s_upload"
    /\ calls' = Append(calls, Call("upload_blob", UploadContainer, loc.blob_name, NoStr))
    /\ \E ok \in BOOLEAN :
         IF ~ok
         THEN SingleFailed("HttpResponseError") /\ UNCHANGED storage
         ELSE IF ~storage[UploadContainer].exists
         THEN SingleFailed("ContainerNotFound") /\ UNCHANGED storage
         ELSE /\ storage' = [storage EXCEPT ![UploadContainer].blobs =
                               Put(@, loc.blob_name,
                                   EmbeddingsData(loc.blob_name, loc.embeddings, loc.file_path))]
              /\ ret' = [kind |-> "return", status |-> "success",
                         blob_name |-> loc.blob_name, message |-> ""]
              /\ pc' = "done"
              /\ UNCHANGED loc
    /\ UNCHANGED <<route, body, resp, before, lastBatch>>

\* ----------------------------------------------------------- environment
\* Another process runs line 91 for the container it found absent.
OtherProcessCreatesContainer ==
    /\ ~storage[EMBEDDINGS_CONTAINER].exists
    /\ storage' = [storage EXCEPT ![EMBEDDINGS_CONTAINER].exists = TRUE]
    /\ UNCHANGED <<pc, route, body, loc, resp, ret, calls, before, lastBatch>>

Range(s) == {s[i] : i \in 1..Len(s)}

\* The response is sent; the worker takes the next request.
Finish ==
    /\ pc = "done"
    /\ pc' = "idle"
    /\ lastBatch' =
         IF route = "/process_embeddings" /\ resp.has_result
         THEN [valid |-> TRUE, user_id |-> loc.user_id,
               processed |-> Range(resp.result.processed_files),
               failed |-> {<<f.blob_name, f.error>> : f \in Range(resp.result.failed_files)},
               keys |-> DOMAIN storage[EMBEDDINGS_CONTAINER].blobs]
         ELSE NoBatch
    /\ loc' = NoLoc
    /\ resp' = NoResp
    /\ ret' = NoRet
    /\ calls' = << >>
    /\ before' = NoBlobs
    /\ route' = ""
    /\ body' = NullBody
    /\ UNCHANGED storage

Next ==
    \/ process_embeddings
    \/ BatchExists
    \/ BatchCreate
    \/ BatchList
    \/ BatchRead
    \/ BatchParse
    \/ BatchEmbed
    \/ BatchUpload
    \/ BatchReturn
    \/ process_single_embedding_route
    \/ process_single_metadata_to_embedding
    \/ SingleExists
    \/ SingleCreate
    \/ SingleNormalize
    \/ SingleRead
    \/ SingleParse
    \/ SingleEmbed
    \/ SingleUpload
    \/ OtherProcessCreatesContainer
    \/ Finish

Spec == Init /\ [][Next]_vars

\* ------------------------------------------------------------------ claims
Metadata == storage[METADATA_CONTAINER].blobs
Target == storage[EMBEDDINGS_CONTAINER].blobs
Listed(user_id) == {k \in DOMAIN Metadata : IsPrefix(user_id \o <<"/">>, k)}
CallsFor(op, key) == {i \in 1..Len(calls) : calls[i].op = op /\ calls[i].key = key}
ItemOps == {"download_blob", "embeddings.create", "upload_blob"}
FailedKeys(failed_files) == {f.blob_name : f \in Range(failed_files)}
TransientErrors == {"ServiceRequestError", "APIError", "HttpResponseError"}
BatchDone == pc = "done" /\ route = "/process_embeddings"
SingleCalled == route = "process_single_metadata_to_embedding"

\* C1: once a batch run has attempted an item it ends by returning a summary
\* (never by raising), and a returned summary lists every key under
\* <user_id>/ exactly once, in processed_files or in failed_files and not in
\* both, lists no other key, and every listed key was attempted (read); an
\* empty listing gives two empty lists.
BatchIsolatesItemFailures ==
    BatchDone =>
        /\ (\E i \in 1..Len(calls) : calls[i].op \in ItemOps) => resp.has_result /\ resp.status = 200
        /\ resp.has_result =>
             LET P == resp.result.processed_files
                 F == resp.result.failed_files
                 L == Listed(body.user_id)
             IN  /\ Range(P) \cup FailedKeys(F) = L
                 /\ Range(P) \cap FailedKeys(F) = {}
                 /\ Len(P) + Len(F) = Cardinality(L)
                 /\ \A k \in L : CallsFor("download_blob", k) # {}

\* A summary in which an item was processed after an earlier one had failed.
BatchIsolatesItemFailures_witness ==
    /\ BatchDone /\ resp.has_result
    /\ \E f \in Range(resp.result.failed_files), k \in Range(resp.result.processed_files) :
         StrLess(f.blob_name, k)

\* C2 (as claimed): a POST /process_single_embedding whose body lacks user_id
\* or blob_name is answered 400 "Missing user_id or blob_name in request"
\* with no storage or embedding call.
SingleMissingFieldIs400 ==
    (pc = "done" /\ route = "/process_single_embedding"
        /\ (~body.has_user_id \/ ~body.has_blob_name))
    => /\ resp.status = 400
       /\ resp.error = "Missing user_id or blob_name in request"
       /\ calls = << >>

\* C3 (as claimed): a POST /process_single_embedding with both fields is
\* answered from the single-item outcome: 200 for success, 500 for error.
SingleStatusFollowsOutcome ==
    (pc = "done" /\ route = "/process_single_embedding"
        /\ body.has_user_id /\ body.has_blob_name)
    => /\ ret.kind = "return"
       /\ ret.status = "success" => resp.status = 200
       /\ ret.status = "error" => resp.status = 500

CreationRaceIsBenign ==
    (pc = "done" /\ (\E i \in 1..Len(calls) : calls[i].op = "create_container"))
    => /\ BatchDone => \E i \in 1..Len(calls) : calls[i].op = "list_blobs"
       /\ SingleCalled => ret.kind = "return"

\* C6: every record in the embeddings container sits at the key of a
\* metadata object, carries that key as file_name and the object's file_path
\* (or "unknown_path" when it has none) as file_path; a key reported as
\* processed (batch) or success (single) holds such a record.
RecordMirrorsSource ==
    /\ \A k \in DOMAIN Target :
         /\ k \in DOMAIN Metadata
         /\ Metadata[k].json /\ Metadata[k].value.type = "object"
         /\ Target[k].json /\ Target[k].value.type = "object"
         /\ LET rec == Target[k].value.items
                src == Metadata[k].value.items
            IN  /\ Len(rec) = 3
                /\ rec[1] = <<"file_name", k>>
                /\ rec[2][1] = "embeddings"
                /\ rec[3][1] = "file_path"
                /\ rec[3][2] = IF DictHas(src, "file_path")
                               THEN DictGet(src, "file_path", << >>)
                               ELSE <<"unknown_path">>
    /\ route = "/process_embeddings" => Range(loc.processed_files) \subseteq DOMAIN Target
    /\ (SingleCalled /\ ret.status = "success") => ret.blob_name \in DOMAIN Target

\* A single-item success for a metadata object without file_path.
RecordMirrorsSource_witness ==
    /\ pc = "done" /\ SingleCalled /\ ret.status = "success"
    /\ ~DictHas(Metadata[ret.blob_name].value.items, "file_path")
    /\ Target[ret.blob_name].value.items[3][2] = <<"unknown_path">>

\* The previous request was a batch run for the same user and this one has
\* returned its summary.
SecondRunDone == BatchDone /\ resp.has_result /\ lastBatch.valid
Transient(failed) == {f \in failed : f[2] \in TransientErrors}
NowFailed == {<<f.blob_name, f.error>> : f \in Range(resp.result.failed_files)}
SameAsLastRun ==
    /\ Range(resp.result.processed_files) = lastBatch.processed
    /\ {f[1] : f \in NowFailed} = {f[1] : f \in lastBatch.failed}
    /\ DOMAIN Target = lastBatch.keys

\* C7 (as claimed): a second batch run for the same user, with no metadata
\* change in between, gives the same processed and failed key sets and
\* leaves the same set of keys in the embeddings container.
BatchIdempotent == SecondRunDone => SameAsLastRun

\* C7 (amended): the same, when the read, embed and write calls that fail
\* are the same in both runs.
BatchIdempotentSameFaults ==
    (SecondRunDone /\ Transient(NowFailed) = Transient(lastBatch.failed)) => SameAsLastRun

\* A second run with the faults of the first, one item processed and one failed.
BatchIdempotentSameFaults_witness ==
    /\ SecondRunDone /\ Transient(NowFailed) = Transient(lastBatch.failed)
    /\ lastBatch.processed # {} /\ Transient(lastBatch.failed) # {}

\* C8: in a single-item call every blob read and write uses, and every
\* returned outcome carries, <user_id>/<blob_name> when blob_name does not
\* start with <user_id>/ and blob_name itself when it does; a success has
\* read and written at that key.
SingleUsesNormalizedKey ==
    SingleCalled =>
        LET u == body.user_id
            b == body.blob_name
            n == IF IsPrefix(u \o <<"/">>, b) THEN b ELSE u \o <<"/">> \o b
        IN  /\ \A i \in 1..Len(calls) :
                 calls[i].op \in {"download_blob", "upload_blob"} => calls[i].key = n
            /\ ret.kind = "return" => ret.blob_name = n
            /\ ret.status = "success" =>
                 CallsFor("download_blob", n) # {} /\ CallsFor("upload_blob", n) # {}

\* An error outcome for a blob_name that had to be prefixed.
SingleUsesNormalizedKey_witness ==
    /\ pc = "done" /\ SingleCalled
    /\ ret.status = "error" /\ ret.message = "APIError"
    /\ ~IsPrefix(body.user_id \o <<"/">>, body.blob_name)
    /\ ret.blob_name = body.user_id \o <<"/">> \o body.blob_name

\* C9: no step changes the metadata container; a step that changes the
\* storage either creates the embeddings container or writes one object
\* in it, and nothing is ever removed.
MetadataReadOnly ==
    [][ /\ storage'[METADATA_CONTAINER] = storage[METADATA_CONTAINER]
        /\ storage[EMBEDDINGS_CONTAINER].exists => storage'[EMBEDDINGS_CONTAINER].exists
        /\ DOMAIN Target \subseteq DOMAIN Target'
        /\ storage' # storage =>
             \/ /\ ~storage[EMBEDDINGS_CONTAINER].exists
                /\ Target' = Target
             \/ /\ storage'[EMBEDDINGS_CONTAINER].exists = storage[EMBEDDINGS_CONTAINER].exists
                /\ \E k \in DOMAIN Target' : \A j \in DOMAIN Target : j # k => Target'[j] = Target[j]
      ]_vars

\* A batch run that wrote a record and also recorded a failure.
MetadataReadOnly_witness ==
    /\ BatchDone /\ resp.has_result
    /\ resp.result.processed_files # << >> /\ resp.result.failed_files # << >>
    /\ Target # << >>

\* C10: in a batch run a key in processed_files has had its upload issued
\* and its record is in the embeddings container; a key whose read, parse
\* or embed failed has had no upload issued and the container holds for it
\* what it held when the request arrived; no item is read, embedded or
\* uploaded twice.
BatchWritesOnlyAfterSuccess ==
    route = "/process_embeddings" =>
        /\ \A k \in Range(loc.processed_files) :
             /\ CallsFor("upload_blob", k) # {}
             /\ k \in DOMAIN Target
        /\ \A f \in Range(loc.failed_files) :
             f.error \in {"ServiceRequestError", "BlobNotFound", "JSONDecodeError",
                          "AttributeError", "APIError"}
             => /\ CallsFor("upload_blob", f.blob_name) = {}
                /\ f.blob_name \in DOMAIN Target <=> f.blob_name \in DOMAIN before
                /\ f.blob_name \in DOMAIN before => Target[f.blob_name] = before[f.blob_name]
        /\ \A i, j \in 1..Len(calls) :
             (i # j /\ calls[i].op \in ItemOps /\ calls[i].op = calls[j].op)
             => calls[i].key # calls[j].key

\* A run in which the embedding failed for a key that already had a record,
\* and another key was processed.
BatchWritesOnlyAfterSuccess_witness ==
    /\ BatchDone /\ resp.has_result
    /\ resp.result.processed_files # << >>
    /\ \E f \in Range(resp.result.failed_files) :
         f.error = "APIError" /\ f.blob_name \in DOMAIN before

====
